---- MODULE Spec2Model ----
(***************************************************************************)
(* scripts/test-update-server.py: a static file server for testing an      *)
(* auto-updater.  CORSRequestHandler subclasses                            *)
(* http.server.SimpleHTTPRequestHandler (directory = DIRECTORY), overrides *)
(* end_headers, do_OPTIONS and log_message, and is run by a                *)
(* socketserver.TCPServer under serve_forever().                           *)
(*                                                                         *)
(* The file system is a function from canonical paths (sequences of names, *)
(* relative to the working directory) to nodes; a request path is the      *)
(* sequence of its '/'-separated segments, after unquoting, and a flag for *)
(* a trailing slash.                                                       *)
(***************************************************************************)
EXTENDS Integers, Sequences, FiniteSets, TLC

\* ------------------------------------------------------------------ bounds
\* The longest request path, in segments, and the number of connections
\* clients open during a run.
MaxPathLen == 2
MaxConns == 2

\* --------------------------------------------------------------- constants
\* DIRECTORY = "./dist-updates", as the path that os.path.join builds on.
DIRECTORY == <<"dist-updates">>

\* The three headers end_headers adds.
ACAO == "Access-Control-Allow-Origin: *"
ACAM == "Access-Control-Allow-Methods: GET, OPTIONS"
ACAH == "Access-Control-Allow-Headers: *"

\* A path that names nothing (the result of a failed resolution).
NoPath == <<"", "ENOENT">>

\* ------------------------------------------------------------- file system
Bytes(p) == <<"bytes of">> \o p

DirNode == [type |-> "dir", data |-> <<>>]

FileNode(p) == [type |-> "file", data |-> Bytes(p)]

Parent(p) == IF p = <<>> THEN <<>> ELSE SubSeq(p, 1, Len(p) - 1)

\* The operating system's resolution of a path, component by component, from
\* the working directory: ".." steps to the parent of a directory that exists,
\* a name steps to an existing entry of a directory.
RECURSIVE Walk(_, _, _)
Walk(f, cur, rest) ==
    IF rest = <<>> THEN cur
    ELSE IF cur \notin DOMAIN f \/ f[cur].type # "dir" THEN NoPath
    ELSE IF Head(rest) = ".." THEN Walk(f, Parent(cur), Tail(rest))
    ELSE IF Head(rest) = "." THEN Walk(f, cur, Tail(rest))
    ELSE IF (cur \o <<Head(rest)>>) \in DOMAIN f
         THEN Walk(f, cur \o <<Head(rest)>>, Tail(rest))
         ELSE NoPath

FsResolve(f, p) == Walk(f, <<>>, p)

\* os.path.isdir / os.path.isfile / open(path, 'rb') succeeding.  A trailing
\* slash on the name of a regular file makes all three fail.
IsDir(f, p) == FsResolve(f, p) # NoPath /\ f[FsResolve(f, p)].type = "dir"

IsFile(f, p) == FsResolve(f, p) # NoPath /\ f[FsResolve(f, p)].type = "file"

Inside(p) == Len(p) >= Len(DIRECTORY) /\ SubSeq(p, 1, Len(DIRECTORY)) = DIRECTORY

\* ------------------------------------------------------- path translation
\* posixpath.normpath of an absolute path: empty and "." components go, ".."
\* removes the component before it, and ".." at the root is dropped.
RECURSIVE NormPathFrom(_, _)
NormPathFrom(comps, rest) ==
    IF rest = <<>> THEN comps
    ELSE IF Head(rest) \in {"", "."} THEN NormPathFrom(comps, Tail(rest))
    ELSE IF Head(rest) # ".." THEN NormPathFrom(Append(comps, Head(rest)), Tail(rest))
    ELSE IF comps # <<>> THEN NormPathFrom(Parent(comps), Tail(rest))
    ELSE NormPathFrom(comps, Tail(rest))

NormPath(segs) == NormPathFrom(<<>>, segs)

\* The loop of translate_path: components that are not simple names are
\* ignored, the others are joined to the directory.
RECURSIVE JoinWords(_, _)
JoinWords(path, words) ==
    IF words = <<>> THEN path
    ELSE IF Head(words) \in {"", ".", ".."} THEN JoinWords(path, Tail(words))
    ELSE JoinWords(Append(path, Head(words)), Tail(words))

\* Variant: the request path joined to the directory as it is, ".." included.
translate_path_unfiltered(p) == [segs |-> DIRECTORY \o p.segs, slash |-> p.slash]

translate_path(p) ==
    [segs |-> JoinWords(DIRECTORY, NormPath(p.segs)), slash |-> p.slash]

\* ------------------------------------------------------------- responses
NoBody == [kind |-> "none", data |-> <<>>]

\* The handler while it builds a response: request_version and command as they
\* stand when the response is written, the code given to send_response (which
\* is logged, and sent when a status line is written), the headers buffer,
\* what has been flushed to the socket (wire), the body written after it, the
\* paths of the file system it has looked at, and its log lines.
NewResponse(version, command) ==
    [version |-> version, command |-> command, status |-> 0,
     buf |-> <<>>, wire |-> <<>>, headed |-> FALSE, body |-> NoBody,
     accessed |-> {}, log |-> <<>>]

\* CORSRequestHandler.log_message: the line goes to standard output behind the
\* prefix.  The two formats are log_request's and log_error's.
LogRequestLine == "[Update Server] \"%s\" %s %s"

LogErrorLine == "[Update Server] code %d, message %s"

log_message(r, line) == [r EXCEPT !.log = Append(@, line)]

send_response_only(r, code) ==
    IF r.version # "HTTP/0.9"
    THEN [r EXCEPT !.buf = Append(@, "status-line")]
    ELSE r

send_header(r, line) ==
    IF r.version # "HTTP/0.9" THEN [r EXCEPT !.buf = Append(@, line)] ELSE r

\* send_response: log_request, the status line, Server and Date.
send_response(r, code) ==
    send_header(send_header(send_response_only(
        log_message([r EXCEPT !.status = code], LogRequestLine), code),
        "Server"), "Date")

\* BaseHTTPRequestHandler.end_headers: the blank line, then flush_headers.
base_end_headers(r) ==
    IF r.version # "HTTP/0.9"
    THEN [r EXCEPT !.wire = r.buf, !.buf = <<>>, !.headed = TRUE]
    ELSE r

\* Variant: end_headers as inherited, without the override.
end_headers_no_cors(r) == base_end_headers(r)

\* CORSRequestHandler.end_headers
end_headers(r) ==
    base_end_headers(send_header(send_header(send_header(r, ACAO), ACAM), ACAH))

\* send_error: log_error, the response, Connection: close, the HTML page's headers, and
\* the page itself unless the command is HEAD.
send_error(r, code) ==
    LET h == end_headers(send_header(send_header(send_header(
                 send_response(log_message(r, LogErrorLine), code),
                 "Connection: close"),
                 "Content-Type"), "Content-Length"))
    IN  IF r.command # "HEAD"
        THEN [h EXCEPT !.body = [kind |-> "error", data |-> <<>>]]
        ELSE h

\* ------------------------------------------- SimpleHTTPRequestHandler
\* list_directory: os.listdir of a directory that exists, then a 200 response
\* whose body is the generated listing.
list_directory(r, f, dir) ==
    [r |-> end_headers(send_header(send_header(send_response(r, 200),
                       "Content-type"), "Content-Length")),
     file |-> [kind |-> "listing", data |-> FsResolve(f, dir)]]

\* The index file send_head serves for a directory, or NoPath.
IndexOf(f, dir) ==
    IF IsFile(f, dir \o <<"index.html">>) THEN dir \o <<"index.html">>
    ELSE IF IsFile(f, dir \o <<"index.htm">>) THEN dir \o <<"index.htm">>
    ELSE NoPath

\* Variant: a name that cannot be opened falls back to the listing of the
\* serving directory instead of the 404.
send_file_head_fallback(r, f, path, ims) ==
    IF path.slash \/ ~IsFile(f, path.segs)
    THEN list_directory(r, f, DIRECTORY)
    ELSE IF ims
    THEN [r |-> end_headers(send_response(r, 304)), file |-> NoBody]
    ELSE [r |-> end_headers(send_response(r, 200)),
          file |-> [kind |-> "file", data |-> f[FsResolve(f, path.segs)].data]]

\* send_head from "ctype = self.guess_type(path)" on: path is a translated
\* path (or an index file), ims says that the request carries an
\* If-Modified-Since that is not before the file's last modification, and no
\* If-None-Match.
send_file_head(r, f, path, ims) ==
    IF path.slash \/ ~IsFile(f, path.segs)
    THEN [r |-> send_error(r, 404), file |-> NoBody]
    ELSE IF ims
    THEN [r |-> end_headers(send_response(r, 304)), file |-> NoBody]
    ELSE [r |-> end_headers(send_header(send_header(send_header(
                    send_response(r, 200),
                    "Content-type"), "Content-Length"), "Last-Modified")),
          file |-> [kind |-> "file", data |-> f[FsResolve(f, path.segs)].data]]

\* send_head: the response code and headers of GET and HEAD, and the file
\* object to copy (NoBody for None).
send_head(r, f, p, ims) ==
    LET path == translate_path(p)
        a    == [r EXCEPT !.accessed = @ \cup {path.segs}]
    IN  IF IsDir(f, path.segs)
        THEN IF ~p.slash
             THEN [r |-> end_headers(send_header(send_header(
                             send_response(a, 301), "Location"), "Content-Length")),
                   file |-> NoBody]
             ELSE LET b == [a EXCEPT !.accessed =
                                @ \cup {path.segs \o <<"index.html">>,
                                        path.segs \o <<"index.htm">>}]
                  IN  IF IndexOf(f, path.segs) # NoPath
                      THEN send_file_head(b, f,
                               [segs |-> IndexOf(f, path.segs), slash |-> FALSE], ims)
                      ELSE list_directory(b, f, path.segs)
        ELSE send_file_head(a, f, path, ims)

\* Variant: do_GET without the copyfile.
do_GET_headers_only(r, f, p, ims) == send_head(r, f, p, ims).r

do_GET(r, f, p, ims) ==
    LET h == send_head(r, f, p, ims)
    IN  IF h.file # NoBody THEN [h.r EXCEPT !.body = h.file] ELSE h.r

do_HEAD(r, f, p, ims) == send_head(r, f, p, ims).r

\* Variant: do_OPTIONS answering like HEAD for the path, with status 200.
do_OPTIONS_probing(r, f, p) == [do_HEAD(r, f, p, FALSE) EXCEPT !.status = 200]

\* CORSRequestHandler.do_OPTIONS
do_OPTIONS(r, f, p) == end_headers(send_response(r, 200))

\* ------------------------------------------------ BaseHTTPRequestHandler
\* The request line's last word: absent (an HTTP/0.9 line of two words),
\* HTTP/1.1, HTTP/2.0, or a word that is no HTTP version.
Versions == {"", "HTTP/1.1", "HTTP/2.0", "HTCPCP/1.0"}

\* parse_request: request_version is "HTTP/0.9" and command None until the
\* request line is accepted; an error response is written with them.
parse_request(req) ==
    LET r0 == NewResponse("HTTP/0.9", "None")
    IN  IF req.version = "HTCPCP/1.0" THEN [ok |-> FALSE, r |-> send_error(r0, 400)]
        ELSE IF req.version = "HTTP/2.0" THEN [ok |-> FALSE, r |-> send_error(r0, 505)]
        ELSE IF req.version = "" /\ req.method # "GET"
             THEN [ok |-> FALSE, r |-> send_error(r0, 400)]
        ELSE [ok |-> TRUE,
              r  |-> NewResponse(IF req.version = "" THEN "HTTP/0.9" ELSE req.version,
                                 req.method)]

\* handle_one_request once the request line has been read: parse, find
\* do_<command>, call it.
handle_one_request(req, f) ==
    LET p == parse_request(req)
    IN  IF ~p.ok THEN p.r
        ELSE IF req.method = "GET" THEN do_GET(p.r, f, req.path, req.ims)
        ELSE IF req.method = "HEAD" THEN do_HEAD(p.r, f, req.path, req.ims)
        ELSE IF req.method = "OPTIONS" THEN do_OPTIONS(p.r, f, req.path)
        ELSE send_error(p.r, 501)

\* ------------------------------------------------------------------ state
VARIABLES
    fs,         \* the file system: canonical path -> node
    canCreate,  \* whether the process may create DIRECTORY
    portFree,   \* whether ("", PORT) can be bound
    pc,         \* the statement of __main__ the process is at
    exit,       \* how the process ended, "running" until then
    sock,       \* httpd's socket: "none", "listening", "closed"
    made,       \* what os.makedirs did: "", "existed", "created", "error"
    stdout,     \* the lines printed so far
    stderr,     \* the tracebacks written so far, each by its exception
    queued,     \* connections waiting in the listen queue
    nConns,     \* connections opened so far
    cur,        \* the connection being handled, by what its client has done:
                \* "silent", "sent", "eof", "reset" ("none": the loop is in select)
    req,        \* the request the current (or last) handler read
    resp        \* the response the current (or last) handler wrote

vars == <<fs, canCreate, portFree, pc, exit, sock, made, stdout, stderr,
          queued, nConns, cur, req, resp>>

env == <<fs, canCreate, portFree>>

\* --------------------------------------------------------------- inputs
Segments == {"a", "d", ".."}

SegSeqs == UNION {[1..n -> Segments] : n \in 0..MaxPathLen}

\* A request path: "/" alone has no segments and ends with a slash.
Paths == {p \in [segs : SegSeqs, slash : BOOLEAN] : p.segs = <<>> => p.slash}

Methods == {"GET", "HEAD", "OPTIONS", "PUT"}

Requests ==
    [method : Methods, path : Paths, version : Versions, ims : {FALSE}]
    \cup [method : {"GET", "HEAD"}, path : Paths, version : {"HTTP/1.1"}, ims : {TRUE}]

NoRequest == [method |-> "", path |-> [segs |-> <<>>, slash |-> TRUE],
              version |-> "", ims |-> FALSE]

NoResponse == NewResponse("", "")

\* What lies outside the serving directory: the working directory and a file
\* in it that has the name of a file that may exist inside.
OutsidePaths == {<<>>, <<"a">>}

\* What the serving directory may hold when the process starts.
InsidePaths == {DIRECTORY \o <<"a">>, DIRECTORY \o <<"d">>,
                DIRECTORY \o <<"d", "a">>, DIRECTORY \o <<"d", "index.html">>}

DirPaths == {<<>>, DIRECTORY, DIRECTORY \o <<"d">>}

Tree(S) == [p \in S |-> IF p \in DirPaths THEN DirNode ELSE FileNode(p)]

InitialTrees ==
    {Tree(OutsidePaths)}
    \cup {[p \in OutsidePaths \cup {DIRECTORY} |->
              IF p = <<>> THEN DirNode ELSE FileNode(p)]}
    \cup {Tree(OutsidePaths \cup {DIRECTORY} \cup S) :
              S \in {T \in SUBSET InsidePaths :
                        \A q \in T : Parent(q) \in T \cup {DIRECTORY}}}

Init ==
    /\ fs \in InitialTrees
    /\ canCreate \in BOOLEAN
    /\ portFree \in BOOLEAN
    /\ pc = "makedirs"
    /\ exit = "running"
    /\ sock = "none"
    /\ made = ""
    /\ stdout = <<>>
    /\ stderr = <<>>
    /\ queued = 0
    /\ nConns = 0
    /\ cur = "none"
    /\ req = NoRequest
    /\ resp = NoResponse

\* ------------------------------------------------------------- __main__
\* os.makedirs(DIRECTORY, exist_ok=True): nothing to do for a directory that
\* exists; FileExistsError for a file of that name; otherwise mkdir, which the
\* parent's permissions may refuse.
\* Variant: os.makedirs(DIRECTORY) without exist_ok.
makedirs_result_no_exist_ok(f, allowed) ==
    IF DIRECTORY \in DOMAIN f THEN "error"
    ELSE IF allowed THEN "created"
    ELSE "error"

makedirs_result(f, allowed) ==
    IF IsDir(f, DIRECTORY) THEN "existed"
    ELSE IF DIRECTORY \in DOMAIN f THEN "error"
    ELSE IF allowed THEN "created"
    ELSE "error"

\* Line 44.  An OSError is caught nowhere: the process ends with a traceback.
Makedirs ==
    /\ pc = "makedirs"
    /\ made' = makedirs_result(fs, canCreate)
    /\ fs' = IF made' = "created"
             THEN [p \in DOMAIN fs \cup {DIRECTORY} |->
                      IF p = DIRECTORY THEN DirNode ELSE fs[p]]
             ELSE fs
    /\ IF made' = "error"
       THEN pc' = "exited" /\ exit' = "OSError" /\ stderr' = Append(stderr, "OSError")
       ELSE pc' = "bind" /\ exit' = exit /\ stderr' = stderr
    /\ UNCHANGED <<canCreate, portFree, sock, stdout, queued, nConns, cur, req, resp>>

\* socketserver.TCPServer(("", PORT), CORSRequestHandler): the socket, then
\* server_bind and server_activate; when they raise, server_close and the
\* exception leaves the process.
\* Variant: the failure of the bind is swallowed and the with block runs.
Bind_keeps_going ==
    /\ pc = "bind"
    /\ sock' = IF portFree THEN "listening" ELSE "closed"
    /\ pc' = "banner"
    /\ UNCHANGED <<env, exit, made, stdout, stderr, queued, nConns, cur, req, resp>>

Bind ==
    /\ pc = "bind"
    /\ IF portFree
       THEN sock' = "listening" /\ pc' = "banner" /\ exit' = exit /\ stderr' = stderr
       ELSE /\ sock' = "closed"
            /\ pc' = "exited"
            /\ exit' = "OSError"
            /\ stderr' = Append(stderr, "OSError")
    /\ UNCHANGED <<env, made, stdout, queued, nConns, cur, req, resp>>

\* The prints of the with block, before the try.
Banner ==
    /\ pc = "banner"
    /\ stdout' = Append(stdout, "Electron Update Server Running")
    /\ pc' = "serve"
    /\ UNCHANGED <<env, exit, sock, made, stderr, queued, nConns, cur, req, resp>>

\* Entering the try and httpd.serve_forever().
ServeForever ==
    /\ pc = "serve"
    /\ pc' = "serving"
    /\ UNCHANGED <<env, exit, sock, made, stdout, stderr, queued, nConns, cur, req, resp>>

\* What a KeyboardInterrupt does where the process is: inside serve_forever()
\* the except clause prints the notice and calls sys.exit(0); anywhere else no
\* clause catches it.
\* Variant: no except clause around serve_forever().
interrupt_exit_uncaught(at) == "KeyboardInterrupt"

interrupt_exit(at) == IF at = "serving" THEN "0" ELSE "KeyboardInterrupt"

\* Ctrl+C: KeyboardInterrupt is raised in the main thread wherever it is.  The
\* with block (or the end of the process) closes the socket, and the handler
\* and the queued connections go with the process.
Interrupt ==
    /\ pc # "exited"
    /\ exit' = interrupt_exit(pc)
    /\ stdout' = IF exit' = "0" THEN Append(stdout, "Server stopped.") ELSE stdout
    /\ stderr' = IF exit' = "0" THEN stderr ELSE Append(stderr, exit')
    /\ pc' = "exited"
    /\ sock' = IF sock = "listening" THEN "closed" ELSE sock
    /\ cur' = "none"
    /\ queued' = 0
    /\ req' = NoRequest
    /\ resp' = NoResponse
    /\ UNCHANGED <<env, made, nConns>>

\* ---------------------------------------------------------------- clients
\* A client connects: the kernel queues the connection on the listening
\* socket, whether or not the process is in accept.
ClientConnect ==
    /\ sock = "listening"
    /\ nConns < MaxConns
    /\ queued' = queued + 1
    /\ nConns' = nConns + 1
    /\ UNCHANGED <<env, pc, exit, sock, made, stdout, stderr, cur, req, resp>>

\* What the client of the connection being handled does after having sent
\* nothing: it sends its request, closes, or resets the connection.  (What a
\* client does while its connection is still queued reaches the server only
\* once the connection is accepted.)
ClientDoes(what) ==
    /\ cur = "silent"
    /\ cur' = what
    /\ UNCHANGED <<env, pc, exit, sock, made, stdout, stderr, queued, nConns, req, resp>>

ClientSend == ClientDoes("sent")

ClientClose == ClientDoes("eof")

ClientReset == ClientDoes("reset")

\* ----------------------------------------------------------- serve_forever
\* select() reports the socket readable; get_request accepts the first queued
\* connection, a new handler is made for it and blocks in rfile.readline():
\* TCPServer handles the connection in the main thread, and the handler's
\* timeout is None.
Accept ==
    /\ pc = "serving"
    /\ cur = "none"
    /\ queued > 0
    /\ cur' = "silent"
    /\ queued' = queued - 1
    /\ req' = NoRequest
    /\ resp' = NoResponse
    /\ UNCHANGED <<env, pc, exit, sock, made, stdout, stderr, nConns>>

\* The request has arrived: handle_one_request, its log lines, and
\* shutdown_request.  protocol_version is HTTP/1.0, so the connection closes
\* after one request.
HandleRequest ==
    /\ pc = "serving"
    /\ cur = "sent"
    /\ \E r \in Requests :
         /\ req' = r
         /\ resp' = handle_one_request(r, fs)
    /\ stdout' = stdout \o resp'.log
    /\ cur' = "none"
    /\ UNCHANGED <<env, pc, exit, sock, made, stderr, queued, nConns>>

\* Variant: the handler does not take the empty read for the end of the
\* connection and goes on waiting.
HandleEOF_ignored ==
    /\ pc = "serving"
    /\ cur = "eof"
    /\ FALSE
    /\ UNCHANGED vars

\* The client closed without sending: readline returns b"" and the handler
\* returns.
HandleEOF ==
    /\ pc = "serving"
    /\ cur = "eof"
    /\ cur' = "none"
    /\ UNCHANGED <<env, pc, exit, sock, made, stdout, stderr, queued, nConns, req, resp>>

\* Variant: the handler's exception is not caught by the loop.
HandleException_uncaught ==
    /\ pc = "serving"
    /\ cur = "reset"
    /\ cur' = "none"
    /\ pc' = "exited"
    /\ exit' = "ConnectionResetError"
    /\ sock' = "closed"
    /\ stderr' = Append(stderr, "ConnectionResetError")
    /\ UNCHANGED <<env, made, stdout, queued, nConns, req, resp>>

\* The handler raises (ConnectionResetError): _handle_request_noblock catches
\* Exception, handle_error writes the traceback, shutdown_request closes the
\* connection, and the loop goes on.
HandleException ==
    /\ pc = "serving"
    /\ cur = "reset"
    /\ cur' = "none"
    /\ stderr' = Append(stderr, "ConnectionResetError")
    /\ UNCHANGED <<env, pc, exit, sock, made, stdout, queued, nConns, req, resp>>

\* The steps the server takes by itself while serving.
ServerStep == Accept \/ HandleRequest \/ HandleEOF \/ HandleException

Next ==
    \/ Makedirs
    \/ Bind
    \/ Banner
    \/ ServeForever
    \/ Interrupt
    \/ ClientConnect
    \/ ClientSend
    \/ ClientClose
    \/ ClientReset
    \/ Accept
    \/ HandleRequest
    \/ HandleEOF
    \/ HandleException

Spec == Init /\ [][Next]_vars

\* ------------------------------------------------- vocabulary of the claims
Range(q) == {q[i] : i \in 1..Len(q)}

CorsHeaders == {ACAO, ACAM, ACAH}

\* The response carries a header block and the three headers are in it.
HasCors(r) == r.headed /\ CorsHeaders \subseteq Range(r.wire)

\* The last handler wrote a response.
Answered == resp.status # 0

\* The last request was accepted by parse_request and given to do_<m>.
Dispatched(m) ==
    /\ Answered
    /\ req.method = m
    /\ req.version = "HTTP/1.1" \/ (req.version = "" /\ m = "GET")

\* URL semantics of a path (RFC 3986, remove_dot_segments): the segments that
\* remain once each ".." has removed the segment before it.
RECURSIVE RemoveDotSegments(_, _)
RemoveDotSegments(out, in) ==
    IF in = <<>> THEN out
    ELSE IF Head(in) = ".."
         THEN RemoveDotSegments(IF out = <<>> THEN out ELSE SubSeq(out, 1, Len(out) - 1),
                                Tail(in))
         ELSE RemoveDotSegments(out \o <<Head(in)>>, Tail(in))

Target(segs) == DIRECTORY \o RemoveDotSegments(<<>>, segs)

\* The path, followed segment by segment from the serving directory, leaves it.
RECURSIVE EscapesFrom(_, _)
EscapesFrom(depth, segs) ==
    IF segs = <<>> THEN FALSE
    ELSE IF Head(segs) = ".." THEN depth = 0 \/ EscapesFrom(depth - 1, Tail(segs))
    ELSE EscapesFrom(depth + 1, Tail(segs))

Escapes(segs) == EscapesFrom(0, segs)

NoDots(segs) == ".." \notin Range(segs)

\* The body is the contents of a file that lies outside the serving directory.
BodyFromOutside ==
    /\ resp.body.kind = "file"
    /\ \E q \in DOMAIN fs :
         ~Inside(q) /\ fs[q].type = "file" /\ fs[q].data = resp.body.data

\* ------------------------------------------------------------------- C1
\* C1 as stated: every response the server writes, whatever the method and
\* the status, includes the three CORS headers.
C1_EveryResponseHasCors == Answered => HasCors(resp)

\* C1, amended: every response to a request line that carries an HTTP/1.x
\* version includes the three CORS headers in its header block, whatever the
\* method and the status; a response written while request_version is
\* HTTP/0.9 (a request line without a version, with a word that is no HTTP
\* version, or with HTTP/2.0) has no status line and no headers at all.
C1_HeaderBlocksHaveCors ==
    Answered =>
        IF req.version = "HTTP/1.1"
        THEN HasCors(resp)
        ELSE ~resp.headed /\ resp.wire = <<>>

C1_Witness ==
    /\ Answered
    /\ req.version = "HTTP/1.1"
    /\ req.method = "PUT"
    /\ resp.status = 501
    /\ HasCors(resp)

\* ------------------------------------------------------------------- C2
\* C2: an OPTIONS request to any path, existing or not, is answered with 200,
\* the same header block and no body; handling it looks at no path of the file
\* system and leaves the file system as it was.
C2_OptionsIs200Empty ==
    [][(cur = "sent" /\ cur' = "none" /\ req'.method = "OPTIONS"
            /\ req'.version = "HTTP/1.1")
       => /\ resp'.status = 200
          /\ resp'.headed
          /\ resp'.wire = <<"status-line", "Server", "Date", ACAO, ACAM, ACAH>>
          /\ resp'.body = NoBody
          /\ resp'.accessed = {}
          /\ fs' = fs]_vars

C2_Witness ==
    /\ Dispatched("OPTIONS")
    /\ Target(req.path.segs) \notin DOMAIN fs
    /\ resp.status = 200
    /\ resp.body = NoBody

\* ------------------------------------------------------------------- C3
\* C3 as stated: a GET whose path leaves the serving directory is answered
\* with 404, and its body is never the contents of a file outside the
\* directory.
C3_TraversalIs404 ==
    (Dispatched("GET") /\ req.version = "HTTP/1.1" /\ ~req.ims
            /\ Escapes(req.path.segs))
        => resp.status = 404 /\ ~BodyFromOutside

\* C3, amended: a GET whose path leaves the serving directory never looks at
\* a path outside it and its body is never the contents of a file outside it;
\* the ".." segments are discarded, and the answer is 404 unless what remains
\* of the path names an entry of the serving directory.
C3_TraversalStaysInside ==
    (Dispatched("GET") /\ Escapes(req.path.segs))
        => /\ ~BodyFromOutside
           /\ \A q \in resp.accessed : NoDots(q) /\ Inside(q)
           /\ Target(req.path.segs) \notin DOMAIN fs => resp.status = 404

C3_Witness ==
    /\ Dispatched("GET")
    /\ req.version = "HTTP/1.1"
    /\ Escapes(req.path.segs)
    /\ resp.status = 200
    /\ resp.body.kind = "file"
    /\ ~BodyFromOutside

\* ------------------------------------------------------------------- C4
\* The request is GET /f for a regular file f of the serving directory.
GetOfFile ==
    /\ Dispatched("GET")
    /\ NoDots(req.path.segs)
    /\ ~req.path.slash
    /\ (DIRECTORY \o req.path.segs) \in DOMAIN fs
    /\ fs[DIRECTORY \o req.path.segs].type = "file"

\* C4 as stated: GET /f of a regular file f under the serving directory
\* returns 200 and a body identical to the contents of f.
C4_FileGetIs200 ==
    (GetOfFile /\ req.version = "HTTP/1.1") =>
        /\ resp.status = 200
        /\ resp.body = [kind |-> "file", data |-> fs[DIRECTORY \o req.path.segs].data]

\* C4, amended: GET /f of a regular file f under the serving directory returns
\* 200 and a body identical to the contents of f, unless the request carries
\* an If-Modified-Since that is not before the file's last modification (and
\* no If-None-Match): then the answer is 304 with no body.
C4_FileGetIs200Or304 ==
    GetOfFile =>
        IF req.ims
        THEN resp.status = 304 /\ resp.body = NoBody
        ELSE /\ resp.status = 200
             /\ resp.body = [kind |-> "file",
                             data |-> fs[DIRECTORY \o req.path.segs].data]

C4_Witness ==
    /\ GetOfFile
    /\ req.version = "HTTP/1.1"
    /\ req.path.segs = <<"d", "a">>
    /\ ~req.ims
    /\ resp.status = 200
    /\ resp.body.data = Bytes(DIRECTORY \o <<"d", "a">>)

\* ------------------------------------------------------------------- C5
\* C5: a GET whose path names nothing under the serving directory is answered
\* with 404 and the error page, never with 200 and a body.
C5_MissingIs404 ==
    (Dispatched("GET") /\ Target(req.path.segs) \notin DOMAIN fs)
        => /\ resp.status = 404
           /\ resp.body.kind = "error"
           /\ req.version = "HTTP/1.1" => resp.headed

C5_Witness ==
    /\ Dispatched("GET")
    /\ req.version = "HTTP/1.1"
    /\ NoDots(req.path.segs)
    /\ Target(req.path.segs) \notin DOMAIN fs
    /\ resp.status = 404

\* ------------------------------------------------------------------- C6
\* C6 as stated: an interrupt at any point after the listening socket has
\* been bound prints the shutdown notice and exits with status 0.
C6_InterruptAfterBindExitsZero ==
    [][(sock = "listening" /\ pc # "exited" /\ pc' = "exited")
       => exit' = "0" /\ stdout' = Append(stdout, "Server stopped.")]_vars

\* C6, amended: an interrupt while serve_forever() runs, idle or in the
\* middle of a connection, prints the shutdown notice and exits with status
\* 0; an interrupt between the bind and the call of serve_forever() (while
\* the banner is printed) is caught by nothing: the process ends with the
\* KeyboardInterrupt, not with status 0, and prints no notice.
C6_InterruptWhileServingExitsZero ==
    [][(sock = "listening" /\ pc # "exited" /\ pc' = "exited")
       => IF pc = "serving"
          THEN /\ exit' = "0"
               /\ stdout' = Append(stdout, "Server stopped.")
               /\ stderr' = stderr
          ELSE /\ pc \in {"banner", "serve"}
               /\ exit' = "KeyboardInterrupt"
               /\ stdout' = stdout]_vars

C6_Witness ==
    /\ exit = "0"
    /\ stdout # <<>>
    /\ stdout[Len(stdout)] = "Server stopped."
    /\ nConns > 0

\* ------------------------------------------------------------------- C7
\* C7: a startup failure ends the process before it serves.  When makedirs
\* fails the process exits with the error and no socket was ever made; when
\* the port cannot be bound it exits with the error and the socket is closed,
\* never listening; in both cases nothing was printed (no banner), no
\* connection was opened and no request was handled.
C7_StartupFailureIsFatal ==
    /\ made = "error" => pc = "exited" /\ exit = "OSError" /\ sock = "none"
    /\ (~portFree /\ made \in {"existed", "created"} /\ pc # "bind")
          => pc = "exited" /\ exit \in {"OSError", "KeyboardInterrupt"}
    /\ ~portFree => sock # "listening"
    /\ exit = "OSError"
          => /\ pc = "exited"
             /\ sock # "listening"
             /\ stdout = <<>>
             /\ stderr = <<"OSError">>
             /\ nConns = 0
             /\ ~Answered

C7_Witness ==
    /\ exit = "OSError"
    /\ made \in {"existed", "created"}
    /\ sock = "closed"

\* ------------------------------------------------------------------- C8
\* C8: makedirs creates the serving directory when it is absent and succeeds
\* when it is already there (it fails only when no directory of that name
\* exists afterwards); past the bind of a free port the process listens until
\* it exits; and whenever the socket listens the serving directory exists.
C8_DirectoryExistsWhileListening ==
    /\ sock = "listening" => IsDir(fs, DIRECTORY)
    /\ made \in {"existed", "created"} => IsDir(fs, DIRECTORY)
    /\ made = "error" => ~IsDir(fs, DIRECTORY)
    /\ (made \in {"existed", "created"} /\ portFree /\ pc \notin {"bind", "exited"})
          => sock = "listening"

C8_Witness ==
    /\ made = "created"
    /\ sock = "listening"
    /\ pc = "serving"
    /\ IsDir(fs, DIRECTORY)

\* ------------------------------------------------------------------- C9
\* C9 as stated: while serving, the only state in which the server waits is
\* the wait for the next connection; in every other state it has a step of
\* its own to take, so no client can hold it.
C9_OnlyAcceptWaits ==
    (pc = "serving" /\ ~(cur = "none" /\ queued = 0)) => ENABLED ServerStep

\* C9, amended: while serving, the server waits in two states: for the next
\* connection, and for the request of the one connection it is handling (the
\* read has no timeout); in every other state it has a step of its own to
\* take.  A client that connects and sends nothing holds the server, and the
\* connections queued behind it, until it sends or disconnects.
C9_WaitsOnlyForAcceptOrCurrentClient ==
    (pc = "serving" /\ ~ENABLED ServerStep)
        => (cur = "none" /\ queued = 0) \/ cur = "silent"

C9_Witness ==
    /\ pc = "serving"
    /\ cur = "silent"
    /\ queued > 0
    /\ ~ENABLED ServerStep

\* ------------------------------------------------------------------ C10
\* C10: while serving, no step that handles a connection (a request answered
\* with whatever status, an end of file, an exception of the handler) ends
\* the loop or closes the socket, and the only step that leaves the serving
\* state is the interrupt.
C10_OnlyInterruptEndsServing ==
    [][pc = "serving"
       => /\ (cur # "none" /\ cur' = "none" /\ exit' = "running")
                => pc' = "serving" /\ sock' = "listening"
          /\ pc' # "serving"
                => /\ pc' = "exited"
                   /\ exit' = "0"
                   /\ stdout' = Append(stdout, "Server stopped.")]_vars

\* An error response was logged and a later request was handled after it.
C10_Witness ==
    /\ pc = "serving"
    /\ sock = "listening"
    /\ \E i \in 1..Len(stdout) :
         /\ stdout[i] = LogErrorLine
         /\ \E j \in (i + 2)..Len(stdout) : stdout[j] = LogRequestLine
====
